---- MODULE Spec2Model ----
(***************************************************************************)
(* A model of the container-metrics scrapers of this repository:           *)
(*   src/metric-scraper/scraper.py  (variant "ms": tunnels, one cycle)     *)
(*   src/scraper-v7.py              (variant "v7": tunnels, one cycle)     *)
(*   src/scraper-v3.py              (variant "v3": tunnels, endless loop)  *)
(*   src/scraper-v2.py              (variant "v2": static endpoint, loop)  *)
(*   src/scraper.py                 (variant "sc": static endpoint, loop)  *)
(*                                                                         *)
(* Text is modelled as a sequence of characters.  A character is a TLA+    *)
(* string: either one real character ("n", "1", "=", " ") or a word, an    *)
(* identifier of the exposition format that the programs only ever compare *)
(* as a whole ("namespace", "container_cpu_usage_seconds_total").          *)
(***************************************************************************)
EXTENDS Integers, Sequences, FiniteSets, TLC

VARIABLES
    variant,        \* which script runs
    pc,             \* the step the script is at (where it ended, once exited)
    exit,           \* "running", or how the process ended
    error,          \* the exception that ended the process, "none" otherwise
    pods,           \* pods: what get_running_cadvisor_pods returned
    procs,          \* per started port-forward process, its tunnel's state
    terms,          \* per started port-forward process, the terminate() calls
    responses,      \* what the targets answered to the usage scrape just made
    prev_metrics,   \* the baseline usage snapshot
    curr_metrics,   \* the usage snapshot of the current cycle
    key_order,      \* insertion order of curr_metrics' keys (scraper.py iterates it)
    ksm_metrics,    \* the state exporter's data of the current cycle
    api,            \* the cluster API's pod listing (scraper.py, scraper-v7.py)
    rows,           \* the records produced in the current cycle
    delivery,       \* what became of the current cycle's batch at the sink
    cycle,          \* number of sampling cycles started
    ptext,          \* parser specification: the exposition text
    pvariant,       \* parser specification: the variant whose parser runs
    presult,        \* parser specification: the parser's result
    assigned,       \* tunnel specification: the ports assigned, in pod order
    others,         \* tunnel specification: the ports other processes listen on
    up,             \* tunnel specification: the port-forwards that listen
    elapsed         \* tunnel specification: time.time() - start in wait_for_port

vars == <<variant, pc, exit, error, pods, procs, terms, responses,
          prev_metrics, curr_metrics, key_order, ksm_metrics, api, rows,
          delivery, cycle, ptext, pvariant, presult, assigned, others, up,
          elapsed>>

-----------------------------------------------------------------------------
(* Bounds of the model *)

MaxLines == 2       \* lines of an exposition text in the parser specification
MaxPods == 2        \* cadvisor pods discovered
MaxTime == 2        \* wall-clock readings are 0..MaxTime
MaxCycles == 2      \* sampling cycles of the looping variants
MaxPort == 3        \* the local ports are 1..MaxPort
Timeout == 2        \* wait_for_port's timeout, in sleeps of its loop

-----------------------------------------------------------------------------
(* Python's str and dict operations, as the scripts use them *)

Range(s) == {s[i] : i \in 1..Len(s)}

Min(S) == CHOOSE x \in S : \A y \in S : x <= y

\* position of the first occurrence of character c in s, 0 when absent
Find(s, c) ==
    LET I == {i \in 1..Len(s) : s[i] = c} IN IF I = {} THEN 0 ELSE Min(I)

\* s.split(c, 1)
SplitOnce(s, c) ==
    LET i == Find(s, c)
    IN  IF i = 0 THEN <<s>>
        ELSE <<SubSeq(s, 1, i - 1), SubSeq(s, i + 1, Len(s))>>

\* s.split(c)
RECURSIVE SplitAll(_, _)
SplitAll(s, c) ==
    LET i == Find(s, c)
    IN  IF i = 0 THEN <<s>>
        ELSE <<SubSeq(s, 1, i - 1)>> \o SplitAll(SubSeq(s, i + 1, Len(s)), c)

\* s.split(): the maximal runs of non-blank characters
RECURSIVE Split(_)
Split(s) ==
    IF s = <<>> THEN <<>>
    ELSE IF s[1] = " " THEN Split(Tail(s))
    ELSE LET i == Find(s, " ")
         IN  IF i = 0 THEN <<s>>
             ELSE <<SubSeq(s, 1, i - 1)>> \o Split(SubSeq(s, i, Len(s)))

\* s.strip(c): every leading and trailing c removed
RECURSIVE StripChar(_, _)
StripChar(s, c) ==
    IF s = <<>> THEN s
    ELSE IF s[1] = c THEN StripChar(Tail(s), c)
    ELSE IF s[Len(s)] = c THEN StripChar(SubSeq(s, 1, Len(s) - 1), c)
    ELSE s

\* s.strip()
Strip(s) == StripChar(s, " ")

\* s.startswith(prefix)
StartsWith(s, prefix) ==
    Len(s) >= Len(prefix) /\ SubSeq(s, 1, Len(prefix)) = prefix

EmptyDict == <<>>

\* d[k] = v
Put(d, k, v) == [x \in DOMAIN d \cup {k} |-> IF x = k THEN v ELSE d[x]]

\* d.get(k, default)
Get(d, k, default) == IF k \in DOMAIN d THEN d[k] ELSE default

Digits == {"0", "1", "2", "3", "4", "5", "6", "7", "8", "9"}

DigitVal == [c \in Digits |->
    CASE c = "0" -> 0 [] c = "1" -> 1 [] c = "2" -> 2 [] c = "3" -> 3
      [] c = "4" -> 4 [] c = "5" -> 5 [] c = "6" -> 6 [] c = "7" -> 7
      [] c = "8" -> 8 [] c = "9" -> 9]

\* float(tok) succeeds; the texts of the model write numbers as plain
\* digit strings
IsFloat(tok) == tok # <<>> /\ \A i \in 1..Len(tok) : tok[i] \in Digits

\* float(tok), for a tok that float() accepts
RECURSIVE FloatVal(_)
FloatVal(tok) ==
    IF tok = <<>> THEN 0
    ELSE 10 * FloatVal(SubSeq(tok, 1, Len(tok) - 1)) + DigitVal[tok[Len(tok)]]

-----------------------------------------------------------------------------
(* The usage exporter's parser: parse_labels and the body of               *)
(* fetch_cadvisor_metrics / fetch_cadvisor_metrics_multiple                *)

\* a parse_labels that splits a pair at every '=', for comparison: the
\* first-'=' property below must not hold of it
ParseLabelsAtEveryEq(label_str) ==
    LET parts == SplitAll(label_str, ",")
        I == {i \in DOMAIN parts : "=" \in Range(parts[i])}
        k(i) == Strip(SplitAll(parts[i], "=")[1])
        last(key) == CHOOSE i \in I : k(i) = key /\ \A j \in I : k(j) = key => j <= i
    IN  [key \in {k(i) : i \in I} |->
            StripChar(SplitAll(parts[last(key)], "=")[2], "\"")]

RECURSIVE ParseLabelParts(_, _, _)
ParseLabelParts(parts, i, labels) ==
    IF i > Len(parts) THEN labels
    ELSE LET part == parts[i]
         IN  IF "=" \in Range(part)
             THEN LET kv == SplitOnce(part, "=")
                  IN  ParseLabelParts(parts, i + 1,
                          Put(labels, Strip(kv[1]), StripChar(kv[2], "\"")))
             ELSE ParseLabelParts(parts, i + 1, labels)

parse_labels(label_str) == ParseLabelParts(SplitAll(label_str, ","), 1, EmptyDict)

CpuPrefix == <<"container_cpu_usage_seconds_total", "{">>
MemPrefix == <<"container_memory_usage_bytes", "{">>

POD == <<"P", "O", "D">>

MiB == 1048576

\* line.split('{', 1)[1].split('}', 1)[0]
LabelPart(line) == SplitOnce(SplitOnce(line, "{")[2], "}")[1]

\* a resolver that looks at the alternate label first, for comparison: the
\* preference for the canonical label below must not hold of it
ResolveAlternateFirst(labels, canonical, alternate) ==
    Get(labels, <<alternate>>, Get(labels, <<canonical>>, <<>>))

\* labels.get(canonical, labels.get(alternate, ""))
Resolve(labels, canonical, alternate) ==
    Get(labels, <<canonical>>, Get(labels, <<alternate>>, <<>>))

ResolveKey(labels) ==
    << Resolve(labels, "namespace", "container_label_io_kubernetes_pod_namespace"),
       Resolve(labels, "pod", "container_label_io_kubernetes_pod_name"),
       Resolve(labels, "container", "container_label_io_kubernetes_container_name") >>

\* a filter that lets every container name through, for comparison: the
\* sentinel properties below must not hold of it
DiscardsNothing(container) == FALSE

\* if not container or container in ("POD", ""): continue
Discarded(container) == container = <<>> \/ container \in {POD, <<>>}

\* the token handed to float(): scraper.py always takes the last one
ValueToken(v, line) ==
    LET t == Split(line)
    IN  IF v = "sc" THEN t[Len(t)]
        ELSE IF Len(t) > 2 THEN t[Len(t) - 1] ELSE t[Len(t)]

\* a CPU entry without the time of the scrape, for comparison: the
\* timestamp properties below must not hold of it
CpuEntryWithoutTime(value, timestamp) == [cpu |-> value]

\* usage[key] = {"cpu": value, "timestamp": timestamp}
CpuEntry(value, timestamp) == [cpu |-> value, timestamp |-> timestamp]

\* if key not in usage: usage[key] = {};  usage[key]["memory"] = value / (1024 ** 2)
MemEntry(usage, key, value) ==
    LET old == Get(usage, key, EmptyDict)
        mem == [n |-> value, d |-> MiB]
    IN  [f \in DOMAIN old \cup {"memory"} |-> IF f = "memory" THEN mem ELSE old[f]]

\* a store that keeps the first CPU sample of a key, for comparison: the
\* single-entry property below must not hold of it
StoreKeepsFirst(st, key, entry) ==
    IF /\ key \in DOMAIN st.usage
       /\ "cpu" \in DOMAIN st.usage[key]
       /\ "cpu" \in DOMAIN entry
    THEN st
    ELSE [st EXCEPT !.usage = Put(st.usage, key, entry),
                    !.order = IF key \in DOMAIN st.usage THEN @ ELSE Append(@, key)]

\* st.usage[key] = entry, remembering the order in which keys were inserted
Store(st, key, entry) ==
    [st EXCEPT !.usage = Put(st.usage, key, entry),
               !.order = IF key \in DOMAIN st.usage THEN @ ELSE Append(@, key)]

\* one iteration of "for line in metrics": st = [usage, order, err]
ParseLine(v, line, st, timestamp) ==
    IF StartsWith(line, CpuPrefix) \/ StartsWith(line, MemPrefix)
    THEN LET key == ResolveKey(parse_labels(LabelPart(line)))
             tok == ValueToken(v, line)
         IN  IF Discarded(key[3]) THEN st
             ELSE IF ~IsFloat(tok) THEN [st EXCEPT !.err = "ValueError"]
             ELSE IF StartsWith(line, CpuPrefix)
                  THEN Store(st, key, CpuEntry(FloatVal(tok), timestamp))
                  ELSE Store(st, key, MemEntry(st.usage, key, FloatVal(tok)))
    ELSE st

\* "for line in metrics": an exception leaves the loop
RECURSIVE ParseLines(_, _, _, _, _)
ParseLines(v, lines, i, st, timestamp) ==
    IF i > Len(lines) \/ st.err # "none" THEN st
    ELSE ParseLines(v, lines, i + 1, ParseLine(v, lines[i], st, timestamp), timestamp)

NoUsage == [usage |-> EmptyDict, order |-> <<>>, err |-> "none"]

\* what requests.get gave: a text, or an exception
Fetched(text) == [ok |-> TRUE, text |-> text]
FetchFailed == [ok |-> FALSE, text |-> <<>>]

\* "for pod, port in pod_ports.items()": a failed fetch is skipped
RECURSIVE FetchTargets(_, _, _, _, _)
FetchTargets(v, resp, i, st, timestamp) ==
    IF i > Len(resp) \/ st.err # "none" THEN st
    ELSE IF ~resp[i].ok THEN FetchTargets(v, resp, i + 1, st, timestamp)
    ELSE FetchTargets(v, resp, i + 1,
                      ParseLines(v, resp[i].text, 1, st, timestamp), timestamp)

\* a fetch that gives up on the first failed target, for comparison: the
\* per-target isolation below must not hold of it
FetchAllOrNothing(v, resp, timestamp) ==
    IF \E i \in DOMAIN resp : ~resp[i].ok THEN NoUsage
    ELSE FetchTargets(v, resp, 1, NoUsage, timestamp)

\* fetch_cadvisor_metrics_multiple(pod_ports): resp[i] is what target i answered
fetch_cadvisor_metrics_multiple(v, resp, timestamp) ==
    FetchTargets(v, resp, 1, NoUsage, timestamp)

\* fetch_cadvisor_metrics(): one endpoint, requests.get outside any try
fetch_cadvisor_metrics(v, resp, timestamp) ==
    IF ~resp.ok THEN [NoUsage EXCEPT !.err = "ConnectionError"]
    ELSE ParseLines(v, resp.text, 1, NoUsage, timestamp)

-----------------------------------------------------------------------------
(* Python's re, for the patterns the scripts compile.  A pattern is a      *)
(* sequence of elements; Rx gives the groups of the first match in the     *)
(* order a backtracking matcher tries them (greedy: longest first, lazy:   *)
(* shortest first).                                                        *)

Lit(s) == [t |-> "lit", s |-> s, set |-> {}]        \* literal text
Alt(S) == [t |-> "alt", s |-> <<>>, set |-> S]      \* (a|b), a group
Greedy == [t |-> "any", s |-> <<>>, set |-> {}]     \* .*
Lazy == [t |-> "lazy", s |-> <<>>, set |-> {}]      \* .*?
NotBrace == [t |-> "nb", s |-> <<>>, set |-> {}]    \* [^}]*
Cap == [t |-> "cap", s |-> <<>>, set |-> {}]        \* ([^"]+), a group
Ws == [t |-> "ws", s |-> <<>>, set |-> {}]          \* \s+
Num == [t |-> "num", s |-> <<>>, set |-> {}]        \* ([0-9.e+-]+), a group

NoMatch == [ok |-> FALSE, caps |-> <<>>]

\* the characters a repeated element accepts
InClass(t, c) ==
    CASE t = "nb" -> c # "}"
      [] t = "cap" -> c # "\""
      [] t = "ws" -> c = " "
      [] t = "num" -> c \in Digits
      [] OTHER -> TRUE

MinCount(t) == IF t \in {"cap", "ws", "num"} THEN 1 ELSE 0

\* a literal that follows a run of arbitrary characters may begin inside a
\* word: namespace=" also ends container_label_io_kubernetes_pod_namespace="
WordEnds(c, w) ==
    c = w \/ (w = "namespace" /\ c = "container_label_io_kubernetes_pod_namespace")

LitAt(line, pos, s, inside) ==
    /\ pos + Len(s) - 1 <= Len(line)
    /\ \A j \in 1..Len(s) :
          IF j = 1 /\ inside THEN WordEnds(line[pos], s[1])
          ELSE line[pos + j - 1] = s[j]

\* the length of the longest run of class t from pos
RECURSIVE RunLen(_, _, _)
RunLen(line, pos, t) ==
    IF pos > Len(line) \/ ~InClass(t, line[pos]) THEN 0
    ELSE 1 + RunLen(line, pos + 1, t)

Max(S) == CHOOSE x \in S : \A y \in S : x >= y

RECURSIVE RxFrom(_, _, _, _, _)
RxFrom(pat, line, i, pos, caps) ==
    IF i > Len(pat) THEN [ok |-> TRUE, caps |-> caps]
    ELSE LET e == pat[i]
             inside == i > 1 /\ pat[i - 1].t \in {"any", "lazy", "nb"}
         IN  CASE e.t = "lit" ->
                    IF LitAt(line, pos, e.s, inside)
                    THEN RxFrom(pat, line, i + 1, pos + Len(e.s), caps)
                    ELSE NoMatch
               [] e.t = "alt" ->
                    IF pos <= Len(line) /\ line[pos] \in e.set
                    THEN RxFrom(pat, line, i + 1, pos + 1, Append(caps, <<line[pos]>>))
                    ELSE NoMatch
               [] OTHER ->
                    \* element i takes n characters, and the rest must match
                    LET rest == [n \in MinCount(e.t)..RunLen(line, pos, e.t) |->
                                    RxFrom(pat, line, i + 1, pos + n,
                                           IF e.t \in {"cap", "num"}
                                           THEN Append(caps, SubSeq(line, pos, pos + n - 1))
                                           ELSE caps)]
                        good == {n \in DOMAIN rest : rest[n].ok}
                    IN  IF good = {} THEN NoMatch
                        ELSE IF e.t = "lazy" THEN rest[Min(good)]
                        ELSE rest[Max(good)]

\* pattern.match(line)
RxMatch(pat, line) == RxFrom(pat, line, 1, 1, <<>>)

\* pattern.search(line): the leftmost match
RxSearch(pat, line) == RxFrom(<<Lazy>> \o pat, line, 1, 1, <<>>)

Q == "\""

\* namespace="([^"]+)",
Group(name) == <<Lit(<<name, "=", Q>>), Cap, Lit(<<Q, ",">>)>>

-----------------------------------------------------------------------------
(* The state exporter's parsers *)

\* a float as an exact fraction n/d
Frac(n, d) == [n |-> n, d |-> d]

Zero == Frac(0, 1)

\* f"{resource}_{kind}"
FieldName(resource, kind) ==
    CASE resource = <<"cpu">> /\ kind = <<"requests">> -> "cpu_requests"
      [] resource = <<"cpu">> /\ kind = <<"limits">> -> "cpu_limits"
      [] resource = <<"memory">> /\ kind = <<"requests">> -> "memory_requests"
      [] resource = <<"memory">> /\ kind = <<"limits">> -> "memory_limits"

\* d[f] = v for a dict d with string field names
SetField(d, f, v) == [x \in DOMAIN d \cup {f} |-> IF x = f THEN v ELSE d[x]]

\* fetch_ksm of scraper-v2.py, scraper-v3.py and metric-scraper/scraper.py
resource_pattern ==
    <<Lit(<<"kube_pod_container_resource_">>), Alt({"requests", "limits"}),
      Lit(<<"{">>), Lazy, Lit(<<"namespace", "=", Q>>), Cap,
      Lit(<<Q, ",", "pod", "=", Q>>), Cap, Lit(<<Q, ",">>),
      Lazy>> \o Group("container") \o <<Lazy>> \o Group("node") \o
    <<Lazy, Lit(<<"resource", "=", Q>>), Alt({"cpu", "memory"}), Lit(<<Q>>),
      Lazy, Lit(<<"}">>), Ws, Num>>

pod_info_pattern ==
    <<Lit(<<"kube_pod_info", "{">>), Lazy, Lit(<<"namespace", "=", Q>>), Cap,
      Lit(<<Q, ",", "pod", "=", Q>>), Cap, Lit(<<Q, ",">>),
      Lazy, Lit(<<"node", "=", Q>>), Cap, Lit(<<Q>>),
      Lazy, Lit(<<"}">>), Ws, Lit(<<"1">>)>>

owner_pattern ==
    <<Lit(<<"kube_pod_owner", "{">>), NotBrace, Lit(<<"namespace", "=", Q>>), Cap,
      Lit(<<Q, ",", "pod", "=", Q>>), Cap, Lit(<<Q, ",">>),
      NotBrace, Lit(<<"owner_kind", "=", Q>>), Cap, Lit(<<Q>>),
      NotBrace, Lit(<<"}">>), Ws, Lit(<<"1">>)>>

\* first loop of fetch_ksm
RECURSIVE KsmResources(_, _, _)
KsmResources(lines, i, data) ==
    IF i > Len(lines) THEN data
    ELSE LET m == RxMatch(resource_pattern, lines[i])
         IN  IF m.ok
             THEN LET kind == m.caps[1]
                      key == <<m.caps[2], m.caps[3], m.caps[4]>>
                      node == m.caps[5]
                      resource == m.caps[6]
                      val == IF resource = <<"memory">>
                             THEN Frac(FloatVal(m.caps[7]), MiB)
                             ELSE Frac(FloatVal(m.caps[7]), 1)
                      old == Get(data, key, EmptyDict)
                      new == SetField(SetField(old, FieldName(resource, kind), val),
                                      "node", node)
                  IN  KsmResources(lines, i + 1, Put(data, key, new))
             ELSE KsmResources(lines, i + 1, data)

\* second loop of fetch_ksm
RECURSIVE KsmPodInfo(_, _, _)
KsmPodInfo(lines, i, data) ==
    IF i > Len(lines) THEN data
    ELSE LET m == RxMatch(pod_info_pattern, lines[i])
         IN  IF m.ok
             THEN KsmPodInfo(lines, i + 1,
                    [key \in DOMAIN data |->
                        IF /\ key[1] = m.caps[1]
                           /\ key[2] = m.caps[2]
                           /\ "node" \notin DOMAIN data[key]
                        THEN SetField(data[key], "node", m.caps[3])
                        ELSE data[key]])
             ELSE KsmPodInfo(lines, i + 1, data)

\* third loop of fetch_ksm
RECURSIVE KsmOwner(_, _, _)
KsmOwner(lines, i, data) ==
    IF i > Len(lines) THEN data
    ELSE LET m == RxMatch(owner_pattern, lines[i])
         IN  IF m.ok
             THEN KsmOwner(lines, i + 1,
                    [key \in DOMAIN data |->
                        IF key[1] = m.caps[1] /\ key[2] = m.caps[2]
                        THEN SetField(data[key], "owner", m.caps[3])
                        ELSE data[key]])
             ELSE KsmOwner(lines, i + 1, data)

fetch_ksm(lines) ==
    KsmOwner(lines, 1, KsmPodInfo(lines, 1, KsmResources(lines, 1, EmptyDict)))

\* the four patterns of parse_ksm_metrics (scraper.py), in dict order
ScPattern(family, resource) ==
    <<Lit(<<"kube_pod_container_resource_", family, "{">>), NotBrace>> \o
    Group("namespace") \o <<NotBrace>> \o Group("pod") \o <<NotBrace>> \o
    Group("node") \o
    <<NotBrace, Lit(<<"resource", "=", Q, resource, Q>>), NotBrace,
      Lit(<<"}">>), Ws, Num>>

\* the four patterns of scraper-v7.py, in dict order
V7Pattern(family, resource) ==
    <<Lit(<<"kube_pod_container_resource_", family, "{">>), Greedy>> \o
    Group("namespace") \o <<Greedy>> \o Group("pod") \o
    <<Greedy, Lit(<<"resource", "=", Q, resource, Q>>), Greedy,
      Lit(<<"}">>), Ws, Num>>

PatternKeys == <<"memory_request", "memory_limit", "cpu_request", "cpu_limit">>

PatternFamily(k) == IF k \in {"memory_request", "cpu_request"} THEN "requests" ELSE "limits"

PatternResource(k) == IF k \in {"memory_request", "memory_limit"} THEN "memory" ELSE "cpu"

\* "for key, pattern in patterns.items()" of parse_ksm_metrics, for one line
RECURSIVE ScLine(_, _, _)
ScLine(line, j, resource_data) ==
    IF j > Len(PatternKeys) THEN resource_data
    ELSE LET key == PatternKeys[j]
             m == RxSearch(ScPattern(PatternFamily(key), PatternResource(key)), line)
         IN  IF m.ok
             THEN LET nspod == <<m.caps[1], m.caps[2]>>
                      val == IF PatternResource(key) = "memory"
                             THEN Frac(FloatVal(m.caps[4]), MiB)
                             ELSE Frac(FloatVal(m.caps[4]), 1)
                      old == Get(resource_data, nspod, EmptyDict)
                  IN  ScLine(line, j + 1,
                             Put(resource_data, nspod, SetField(old, key, val)))
             ELSE ScLine(line, j + 1, resource_data)

\* parse_ksm_metrics: resource_data[ns][pod], kept as one dict over (ns, pod);
\* the node totals it also returns are not modelled
RECURSIVE parse_ksm_metrics(_, _, _)
parse_ksm_metrics(ksm_lines, i, resource_data) ==
    IF i > Len(ksm_lines) THEN resource_data
    ELSE parse_ksm_metrics(ksm_lines, i + 1, ScLine(ksm_lines[i], 1, resource_data))

-----------------------------------------------------------------------------
(* Exposition texts the exporters may serve *)

N1 == <<"n", "1">>
P1 == <<"p", "1">>
C1 == <<"c", "1">>
C2 == <<"c", "2">>
D1 == <<"d", "1">>
DS == <<"D", "S">>

K1 == <<N1, P1, C1>>
K2 == <<N1, P1, C2>>

\* key="value"
KV(k, v) == <<k, "=", Q>> \o v \o <<Q>>

\* the label block: the pairs joined by commas
RECURSIVE Block(_)
Block(pairs) ==
    IF pairs = <<>> THEN <<>>
    ELSE IF Len(pairs) = 1 THEN pairs[1]
    ELSE pairs[1] \o <<",">> \o Block(Tail(pairs))

\* name{block} tail
Sample(name, pairs, tail) == name \o <<"{">> \o Block(pairs) \o <<"}">> \o tail

CpuName == <<"container_cpu_usage_seconds_total">>
MemName == <<"container_memory_usage_bytes">>

Canon(c) == <<KV("namespace", N1), KV("pod", P1), KV("container", c)>>

\* the alternate cadvisor label scheme, in cadvisor's alphabetical order
Alternate(c) ==
    <<KV("container_label_io_kubernetes_container_name", c),
      KV("container_label_io_kubernetes_pod_name", P1),
      KV("container_label_io_kubernetes_pod_namespace", N1)>>

Val(d) == <<" ", d>>
ValTs(d, t) == <<" ", d, " ", t>>

cpuK1 == Sample(CpuName, Canon(C1), Val("5"))
cpuK1ts == Sample(CpuName, Canon(C1), ValTs("7", "9"))
memK1 == Sample(MemName, Canon(C1), Val("4"))
cpuK2 == Sample(CpuName, Alternate(C2), Val("3"))
memK2 == Sample(MemName, Alternate(C2), ValTs("6", "9"))
cpuPOD == Sample(CpuName, Canon(POD), Val("5"))
cpuNoContainer ==
    Sample(CpuName, <<KV("namespace", N1), KV("pod", P1)>>, Val("5"))
cpuEmptyContainer == Sample(CpuName, Canon(<<>>), Val("5"))
cpuContainerOnly == Sample(CpuName, <<KV("container", C1)>>, Val("5"))
cpuBoth ==
    Sample(CpuName,
           Canon(C1) \o <<KV("container_label_io_kubernetes_container_name", C2)>>,
           Val("5"))
cpuNotANumber == Sample(CpuName, Canon(C1), Val("x"))
cpuNoValue == Sample(CpuName, Canon(C1), <<>>)
cpuBlankInLabel ==
    Sample(CpuName, Canon(C1) \o <<KV("image", <<"x", " ", "y">>)>>, Val("5"))
cpuEqInLabel ==
    Sample(CpuName,
           <<KV("namespace", N1), KV("pod", P1), <<"z">>,
             KV("container", <<"c", "=", "1">>)>>,
           Val("5"))
cpuUnquoted ==
    Sample(CpuName,
           <<<<"namespace", "=">> \o N1, <<"pod", "=">> \o P1,
             <<"container", "=">> \o POD>>,
           Val("5"))
typeLine ==
    <<"#", " ", "T", "Y", "P", " ", "container_cpu_usage_seconds_total", " ", "c">>
otherFamily == Sample(<<"container_fs_usage_bytes">>, Canon(C1), Val("5"))

\* the lines of the parser specification's texts
Lines ==
    { cpuK1, cpuK1ts, memK1, cpuK2, memK2, cpuPOD, cpuNoContainer,
      cpuEmptyContainer, cpuContainerOnly, cpuBoth, cpuNotANumber, cpuNoValue,
      cpuBlankInLabel, cpuEqInLabel, cpuUnquoted, typeLine, otherFamily }

\* the texts of at most n lines
RECURSIVE TextsUpTo(_)
TextsUpTo(n) ==
    IF n = 0 THEN {<<>>}
    ELSE LET S == TextsUpTo(n - 1)
         IN  S \cup {Append(t, l) : t \in S, l \in Lines}

\* state exporter lines, with kube-state-metrics' label order
KsmLabels(c, resource) ==
    <<KV("namespace", N1), KV("pod", P1), KV("uid", <<"u">>), KV("container", c),
      KV("node", D1), KV("resource", <<resource>>), KV("unit", <<"x">>)>>

ksmCpuRequest ==
    Sample(<<"kube_pod_container_resource_", "requests">>, KsmLabels(C1, "cpu"), Val("2"))
ksmMemLimit ==
    Sample(<<"kube_pod_container_resource_", "limits">>, KsmLabels(C1, "memory"), Val("8"))
ksmPodInfo ==
    Sample(<<"kube_pod_info">>,
           <<KV("namespace", N1), KV("pod", P1), KV("uid", <<"u">>), KV("node", D1)>>,
           Val("1"))
ksmOwner ==
    Sample(<<"kube_pod_owner">>,
           <<KV("namespace", N1), KV("pod", P1), KV("uid", <<"u">>),
             KV("owner_kind", DS), KV("owner_name", <<"x">>)>>,
           Val("1"))
\* a namespace whose name is not two characters long
ksmOtherNs ==
    Sample(<<"kube_pod_container_resource_", "requests">>,
           <<KV("namespace", <<"k", "u", "b">>), KV("pod", P1), KV("uid", <<"u">>),
             KV("container", C1), KV("node", D1), KV("resource", <<"cpu">>)>>,
           Val("2"))

-----------------------------------------------------------------------------
(* The correlate step of the main blocks *)

\* the characters of identity values, in code-point order
CharOrder ==
    <<" ", Q, "-", "0", "1", "2", "3", "4", "5", "6", "7", "8", "9", "=",
      "D", "O", "P", "S", "T", "Y", "b", "c", "d", "k", "n", "p", "u", "x", "y", "z">>

Ord(c) == CHOOSE i \in 1..Len(CharOrder) : CharOrder[i] = c

\* a < b for str
RECURSIVE StrLess(_, _)
StrLess(a, b) ==
    IF a = <<>> THEN b # <<>>
    ELSE IF b = <<>> THEN FALSE
    ELSE IF a[1] = b[1] THEN StrLess(Tail(a), Tail(b))
    ELSE Ord(a[1]) < Ord(b[1])

\* a < b for tuples of str
RECURSIVE KeyLess(_, _)
KeyLess(a, b) ==
    IF a = <<>> THEN b # <<>>
    ELSE IF b = <<>> THEN FALSE
    ELSE IF a[1] = b[1] THEN KeyLess(Tail(a), Tail(b))
    ELSE StrLess(a[1], b[1])

\* sorted(d), d's keys in ascending order
RECURSIVE Sorted(_)
Sorted(S) ==
    IF S = {} THEN <<>>
    ELSE LET m == CHOOSE x \in S : \A y \in S \ {x} : KeyLess(x, y)
         IN  <<m>> \o Sorted(S \ {m})

Unknown == <<"unknown">>

\* the keys a variant's loop visits, in its order: scraper.py iterates the dict
LoopKeys(v, curr, order) == IF v = "sc" THEN order ELSE Sorted(DOMAIN curr)

\* not (key not in prev_metrics or "cpu" not in curr_metrics[key]
\*      or "cpu" not in prev_metrics[key])
Emitted(key, prev, curr) ==
    /\ key \in DOMAIN prev
    /\ "cpu" \in DOMAIN curr[key]
    /\ "cpu" \in DOMAIN prev[key]

\* the quotient without the test of delta_time, for comparison: the rate
\* properties below must not hold of it
CpuRateUnguarded(delta_cpu, delta_time) == Frac(delta_cpu, delta_time)

\* cpu = delta_cpu / delta_time if delta_time > 0 else 0.0
\* (a fraction with denominator 0 stands for the ZeroDivisionError)
CpuRate(delta_cpu, delta_time) ==
    IF delta_time > 0 THEN Frac(delta_cpu, delta_time) ELSE Zero

\* int(mem * 1024 * 1024)
MemBytes(mem) == (mem.n * MiB) \div mem.d

\* owner_info of scraper.py and scraper-v7.py: kind of the first owner
\* reference, or the script's word for "no owner"
RECURSIVE OwnerInfo(_, _, _, _)
OwnerInfo(listing, i, none, d) ==
    IF i > Len(listing) THEN d
    ELSE LET pod == listing[i]
         IN  OwnerInfo(listing, i + 1, none,
                 Put(d, <<pod.namespace, pod.name>>,
                     IF pod.owners = <<>> THEN none ELSE pod.owners[1]))

\* node_map
RECURSIVE NodeMap(_, _, _)
NodeMap(listing, i, d) ==
    IF i > Len(listing) THEN d
    ELSE NodeMap(listing, i + 1,
                 Put(d, <<listing[i].namespace, listing[i].name>>, listing[i].node))

\* container_info
RECURSIVE ContainerInfo(_, _, _)
ContainerInfo(listing, i, d) ==
    IF i > Len(listing) THEN d
    ELSE LET k == <<listing[i].namespace, listing[i].name>>
         IN  ContainerInfo(listing, i + 1,
                           Put(d, k, Get(d, k, <<>>) \o listing[i].containers))

\* the body of the loop over the usage keys, for one emitted key
Row(v, key, prev, curr, ksm, listing) ==
    LET delta_cpu == curr[key].cpu - prev[key].cpu
        delta_time == curr[key].timestamp - prev[key].timestamp
        cpu == CpuRate(delta_cpu, delta_time)
        mem == Get(curr[key], "memory", Zero)
        k == Get(ksm, key, EmptyDict)
        metrics == Get(ksm, <<key[1], key[2]>>, EmptyDict)
    IN  CASE v = "ms" ->
               [node |-> Get(k, "node", Unknown), namespace |-> key[1],
                pod |-> key[2], container |-> key[3],
                cpu_usage_sec |-> cpu, mem_usage_b |-> MemBytes(mem)]
          [] v \in {"v2", "v3"} ->
               [node |-> Get(k, "node", Unknown), ns |-> key[1],
                owner |-> Get(k, "owner", Unknown), pod |-> key[2],
                container |-> key[3], cpu |-> cpu, mem |-> mem,
                cpu_req |-> Get(k, "cpu_requests", Zero),
                cpu_lim |-> Get(k, "cpu_limits", Zero),
                mem_req |-> Get(k, "memory_requests", Zero),
                mem_lim |-> Get(k, "memory_limits", Zero)]
          [] v = "sc" ->
               [namespace |-> key[1], pod |-> key[2],
                node |-> Get(NodeMap(listing, 1, EmptyDict),
                             <<key[1], key[2]>>, Unknown),
                container |-> key[3],
                kind |-> Get(OwnerInfo(listing, 1, <<"None">>, EmptyDict),
                             <<key[1], key[2]>>, <<"Unknown">>),
                cpu_usage |-> cpu, memory_usage |-> mem,
                cpu_request |-> Get(metrics, "cpu_request", Zero),
                cpu_limit |-> Get(metrics, "cpu_limit", Zero),
                memory_request |-> Get(metrics, "memory_request", Zero),
                memory_limit |-> Get(metrics, "memory_limit", Zero)]

\* the rate a row carries
RowCpu(v, row) ==
    CASE v = "ms" -> row.cpu_usage_sec
      [] v \in {"v2", "v3"} -> row.cpu
      [] v = "sc" -> row.cpu_usage

\* the loop over the usage keys: acc = [rows, err]
RECURSIVE Correlate(_, _, _, _, _, _, _, _)
Correlate(v, keys, i, prev, curr, ksm, listing, acc) ==
    IF i > Len(keys) \/ acc.err # "none" THEN acc
    ELSE IF ~Emitted(keys[i], prev, curr)
         THEN Correlate(v, keys, i + 1, prev, curr, ksm, listing, acc)
    ELSE IF "timestamp" \notin DOMAIN curr[keys[i]]
            \/ "timestamp" \notin DOMAIN prev[keys[i]]
         THEN [acc EXCEPT !.err = "KeyError"]
    ELSE LET row == Row(v, keys[i], prev, curr, ksm, listing)
         IN  IF RowCpu(v, row).d = 0
             THEN [acc EXCEPT !.err = "ZeroDivisionError"]
             ELSE Correlate(v, keys, i + 1, prev, curr, ksm, listing,
                            [acc EXCEPT !.rows = Append(@, row)])

NoRows == [rows |-> <<>>, err |-> "none"]

-----------------------------------------------------------------------------
(* scraper-v7.py: its main block parses with its own patterns *)

\* "for key, pattern in patterns.items()" for one line of ksm_metrics:
\* rd = [order, data], data[ns][pod][key], order = the namespaces as inserted
RECURSIVE V7Line(_, _, _)
V7Line(line, j, rd) ==
    IF j > Len(PatternKeys) THEN rd
    ELSE LET key == PatternKeys[j]
             m == RxSearch(V7Pattern(PatternFamily(key), PatternResource(key)), line)
         IN  IF m.ok
             THEN LET ns == m.caps[1]
                      pod == m.caps[2]
                      val == Frac(FloatVal(m.caps[3]), 1)
                      byPod == Get(rd.data, ns, EmptyDict)
                      new == SetField(Get(byPod, pod, EmptyDict), key, val)
                  IN  V7Line(line, j + 1,
                        [order |-> IF ns \in DOMAIN rd.data THEN rd.order
                                   ELSE Append(rd.order, ns),
                         data |-> Put(rd.data, ns, Put(byPod, pod, new))])
             ELSE V7Line(line, j + 1, rd)

RECURSIVE V7ResourceData(_, _, _)
V7ResourceData(lines, i, rd) ==
    IF i > Len(lines) THEN rd
    ELSE V7ResourceData(lines, i + 1, V7Line(lines[i], 1, rd))

\* cadvisor_cpu and cadvisor_mem
V7Usage(name) ==
    <<Lit(<<name, "{">>), Greedy>> \o Group("namespace") \o <<Greedy>> \o
    Group("pod") \o
    <<Greedy, Lit(<<"container", "=", Q>>), Cap, Lit(<<Q>>), Greedy,
      Lit(<<"}">>), Ws, Num>>

\* "for line in curr_metrics": container_usage
RECURSIVE V7ContainerUsage(_, _, _)
V7ContainerUsage(lines, i, usage) ==
    IF i > Len(lines) THEN usage
    ELSE LET c == RxSearch(V7Usage("container_cpu_usage_seconds_total"), lines[i])
             m == RxSearch(V7Usage("container_memory_usage_bytes"), lines[i])
             u1 == IF c.ok
                   THEN LET k == <<c.caps[1], c.caps[2], c.caps[3]>>
                        IN  Put(usage, k, SetField(Get(usage, k, EmptyDict), "cpu",
                                                   Frac(FloatVal(c.caps[4]), 1)))
                   ELSE usage
             u2 == IF m.ok
                   THEN LET k == <<m.caps[1], m.caps[2], m.caps[3]>>
                        IN  Put(u1, k, SetField(Get(u1, k, EmptyDict), "memory",
                                                Frac(FloatVal(m.caps[4]), MiB)))
                   ELSE u1
         IN  V7ContainerUsage(lines, i + 1, u2)

\* "for container in containers": one row per container
RECURSIVE V7Containers(_, _, _, _, _, _, _)
V7Containers(ns, pod, metrics, containers, i, usage, listing) ==
    IF i > Len(containers) THEN <<>>
    ELSE LET u == Get(usage, <<ns, pod, containers[i]>>, EmptyDict)
         IN  <<[node |-> Get(NodeMap(listing, 1, EmptyDict), <<ns, pod>>, Unknown),
                namespace |-> ns, pod |-> pod, container |-> containers[i],
                kind |-> Get(OwnerInfo(listing, 1, <<"Unknown">>, EmptyDict),
                             <<ns, pod>>, Unknown),
                cpu_request |-> Get(metrics, <<"cpu_request">>, Zero),
                cpu_limit |-> Get(metrics, <<"cpu_limit">>, Zero),
                mem_request |-> Get(metrics, <<"memory_request">>, Zero),
                mem_limit |-> Get(metrics, <<"memory_limit">>, Zero),
                cpu_usage_sec |-> Get(u, "cpu", Zero),
                mem_usage_b |-> MemBytes(Get(u, "memory", Zero))]>>
             \o V7Containers(ns, pod, metrics, containers, i + 1, usage, listing)

\* "for (ns, pod), metrics in resource_data.items()": the keys of
\* resource_data are namespace names, and a str unpacks into its characters
RECURSIVE V7Rows(_, _, _, _, _)
V7Rows(rd, i, usage, listing, acc) ==
    IF i > Len(rd.order) \/ acc.err # "none" THEN acc
    ELSE LET key == rd.order[i]
         IN  IF Len(key) # 2 THEN [acc EXCEPT !.err = "ValueError"]
             ELSE LET ns == <<key[1]>>
                      pod == <<key[2]>>
                      containers == Get(ContainerInfo(listing, 1, EmptyDict),
                                        <<ns, pod>>, <<<<"-">>>>)
                  IN  V7Rows(rd, i + 1, usage, listing,
                        [acc EXCEPT !.rows = @ \o
                            V7Containers(ns, pod, rd.data[key], containers, 1,
                                         usage, listing)])

\* the main block of scraper-v7.py from "Parse KSM data" to "Prepare rows"
V7Correlate(curr_lines, ksm_lines, listing) ==
    V7Rows(V7ResourceData(ksm_lines, 1, [order |-> <<>>, data |-> EmptyDict]),
           1, V7ContainerUsage(curr_lines, 1, EmptyDict), listing, NoRows)

-----------------------------------------------------------------------------
(* What the environment may answer *)

Times == 0..MaxTime

\* texts a usage exporter serves in the run of a script
TargetTexts ==
    { <<cpuK1, memK1>>,
      <<cpuK2, cpuK1ts>>,
      <<cpuPOD, memK2, cpuContainerOnly>>,
      <<cpuNotANumber>> }

UsageResponses == {FetchFailed} \cup {Fetched(t) : t \in TargetTexts}

\* texts the state exporter serves
KsmTexts ==
    { <<>>,
      <<ksmCpuRequest, ksmMemLimit, ksmPodInfo, ksmOwner>>,
      <<ksmPodInfo, ksmOwner>>,
      <<ksmCpuRequest, ksmOtherNs>> }

KsmResponses == {FetchFailed} \cup {Fetched(t) : t \in KsmTexts}

\* pod listings of the cluster API
ApiPod(ns, name, owners, containers) ==
    [namespace |-> ns, name |-> name, node |-> D1, owners |-> owners,
     containers |-> containers]

ApiListings ==
    { <<>>,
      <<ApiPod(N1, P1, <<DS>>, <<C1, C2>>)>>,
      <<ApiPod(<<"n">>, <<"1">>, <<>>, <<C1>>)>> }

\* Every parser is a function of the text it is given: each text of the
\* environment is parsed once, and the steps below look the result up.
KsmParsed == [t \in KsmTexts |-> fetch_ksm(t)]

ScKsmParsed == [t \in KsmTexts |-> parse_ksm_metrics(t, 1, EmptyDict)]

V7Correlated ==
    [c \in TargetTexts |-> [k \in KsmTexts |-> [a \in ApiListings |->
        V7Correlate(c, k, a)]]]

MultipleParsed ==
    [v \in {"ms", "v3"} |->
        [r \in UNION {[1..n -> UsageResponses] : n \in 0..MaxPods} |->
            [ts \in Times |-> fetch_cadvisor_metrics_multiple(v, r, ts)]]]

SingleParsed ==
    [v \in {"v2", "sc"} |-> [r \in UsageResponses |-> [ts \in Times |->
        fetch_cadvisor_metrics(v, r, ts)]]]

-----------------------------------------------------------------------------
(* The scripts, step by step *)

Variants == {"ms", "v7", "v3", "v2", "sc"}

\* the steps inside "try: ... finally:" of metric-scraper/scraper.py
MsTry == {"scrape", "ksm", "correlate", "send", "finally"}

\* the steps inside "try: while True: ... except KeyboardInterrupt:" of scraper-v3.py
V3Try == {"scrape", "ksm", "correlate", "update", "sleep"}

FirstStep(v) ==
    CASE v \in {"ms", "v7"} -> "auth"
      [] v = "v3" -> "discover"
      [] v = "v2" -> "baseline"
      [] v = "sc" -> "k8s"

Idle == [done |-> TRUE, usage |-> EmptyDict, order |-> <<>>, err |-> "none"]

Init ==
    /\ variant \in Variants
    /\ pc = FirstStep(variant)
    /\ exit = "running"
    /\ error = "none"
    /\ pods = <<>>
    /\ procs = <<>>
    /\ terms = <<>>
    /\ responses = <<>>
    /\ prev_metrics = EmptyDict
    /\ curr_metrics = EmptyDict
    /\ key_order = <<>>
    /\ ksm_metrics = EmptyDict
    /\ api = <<>>
    /\ rows = <<>>
    /\ delivery = "none"
    /\ cycle = 0
    /\ ptext = <<>>
    /\ pvariant = "none"
    /\ presult = Idle
    /\ assigned = <<>>
    /\ others = {}
    /\ up = {}
    /\ elapsed = 0

Running == exit = "running"

\* the script goes on with step p
Step(p) ==
    /\ pc' = p
    /\ UNCHANGED <<variant, exit, error, ptext, pvariant, presult, assigned,
                   others, up, elapsed>>

\* the process is gone, and its memory with it
Ended(how, e) ==
    /\ exit' = how
    /\ error' = e
    /\ responses' = <<>>
    /\ prev_metrics' = EmptyDict
    /\ curr_metrics' = EmptyDict
    /\ key_order' = <<>>
    /\ ksm_metrics' = EmptyDict
    /\ api' = <<>>
    /\ rows' = <<>>
    /\ delivery' = "none"
    /\ UNCHANGED <<variant, pc, pods, cycle, ptext, pvariant, presult, assigned,
                   others, up, elapsed>>

\* "for _, proc in procs: proc.terminate()"
TerminateAll ==
    /\ procs' = [i \in DOMAIN procs |-> "terminated"]
    /\ terms' = [i \in DOMAIN terms |-> terms[i] + 1]

\* an exception leaves the main block at this step: only the "finally" of
\* metric-scraper/scraper.py runs on its way out
Raise(e) ==
    /\ Ended("exception", e)
    /\ IF variant = "ms" /\ pc \in MsTry
       THEN TerminateAll
       ELSE UNCHANGED <<procs, terms>>

\* KeyboardInterrupt, at any step
Interrupt ==
    /\ Running
    /\ Ended("interrupt", "KeyboardInterrupt")
    /\ IF \/ variant = "ms" /\ pc \in MsTry
          \/ variant = "v3" /\ pc \in V3Try
       THEN TerminateAll
       ELSE UNCHANGED <<procs, terms>>

\* token = get_jwt_token()
Auth ==
    /\ Running /\ pc = "auth"
    /\ \/ /\ Step("discover")
          /\ UNCHANGED <<pods, procs, terms, responses, prev_metrics, curr_metrics,
                         key_order, ksm_metrics, api, rows, delivery, cycle>>
       \/ Raise("AuthError")

\* pods = get_running_cadvisor_pods(namespace)
Discover ==
    /\ Running /\ pc = "discover"
    /\ \/ \E n \in 0..MaxPods :
            /\ pods' = [i \in 1..n |-> i]
            /\ Step("assign")
            /\ UNCHANGED <<procs, terms, responses, prev_metrics, curr_metrics,
                           key_order, ksm_metrics, api, rows, delivery, cycle>>
       \/ Raise("ApiError")

\* assignments = assign_ports_to_pods(pods)
Assign ==
    /\ Running /\ pc = "assign"
    /\ Step("forward")
    /\ UNCHANGED <<pods, procs, terms, responses, prev_metrics, curr_metrics,
                   key_order, ksm_metrics, api, rows, delivery, cycle>>

\* procs = start_port_forwards(namespace, assignments)
Forward ==
    /\ Running /\ pc = "forward"
    /\ procs' = [i \in 1..Len(pods) |-> "starting"]
    /\ terms' = [i \in 1..Len(pods) |-> 0]
    /\ Step("wait")
    /\ UNCHANGED <<pods, responses, prev_metrics, curr_metrics, key_order,
                   ksm_metrics, api, rows, delivery, cycle>>

\* "for pod, port in pod_ports.items(): wait_for_port(port)": the tunnels in
\* R answer a probe in time; the others never come up
WaitForPorts ==
    /\ Running /\ pc = "wait"
    /\ \E R \in SUBSET (1..Len(pods)) :
          procs' = [i \in 1..Len(pods) |-> IF i \in R THEN "ready" ELSE "failed"]
    /\ Step("baseline")
    /\ UNCHANGED <<pods, terms, responses, prev_metrics, curr_metrics, key_order,
                   ksm_metrics, api, rows, delivery, cycle>>

\* what the targets may answer: a tunnel that never came up refuses
TargetResponses ==
    {r \in [1..Len(pods) -> UsageResponses] :
        \A i \in 1..Len(pods) : procs[i] = "failed" => r[i] = FetchFailed}

\* one usage scrape, as the variant makes it: [resp, st]
Scrapes ==
    CASE variant \in {"ms", "v3"} ->
           {[resp |-> r, st |-> MultipleParsed[variant][r][ts]] :
               r \in TargetResponses, ts \in Times}
      [] variant \in {"v2", "sc"} ->
           {[resp |-> <<r>>, st |-> SingleParsed[variant][r][ts]] :
               r \in UsageResponses, ts \in Times}
      [] variant = "v7" ->
           \* fetch_metrics(f"http://localhost:{list(pod_ports.values())[0]}/metrics")
           IF pods = <<>>
           THEN {[resp |-> <<>>, st |-> [NoUsage EXCEPT !.err = "IndexError"]]}
           ELSE {[resp |-> <<r[1]>>,
                  st |-> IF r[1].ok THEN [NoUsage EXCEPT !.usage = r[1].text]
                         ELSE [NoUsage EXCEPT !.err = "ConnectionError"]] :
                    r \in TargetResponses}

\* prev_metrics = fetch...()
Baseline ==
    /\ Running /\ pc = "baseline"
    /\ \E s \in Scrapes :
          IF s.st.err # "none" THEN Raise(s.st.err)
          ELSE /\ prev_metrics' = s.st.usage
               /\ responses' = s.resp
               /\ Step("sleep0")
               /\ UNCHANGED <<pods, procs, terms, curr_metrics, key_order,
                              ksm_metrics, api, rows, delivery, cycle>>

\* time.sleep(30) before the first cycle
FirstSleep ==
    /\ Running /\ pc = "sleep0"
    /\ cycle' = 1
    /\ responses' = <<>>
    /\ Step("scrape")
    /\ UNCHANGED <<pods, procs, terms, prev_metrics, curr_metrics, key_order,
                   ksm_metrics, api, rows, delivery>>

\* curr_metrics = fetch...()
Scrape ==
    /\ Running /\ pc = "scrape"
    /\ \E s \in Scrapes :
          IF s.st.err # "none" THEN Raise(s.st.err)
          ELSE /\ curr_metrics' = s.st.usage
               /\ key_order' = IF variant = "sc" THEN s.st.order ELSE <<>>
               /\ responses' = s.resp
               /\ Step("ksm")
               /\ UNCHANGED <<pods, procs, terms, prev_metrics, ksm_metrics,
                              api, rows, delivery, cycle>>

\* ksm_metrics = fetch_ksm() / parse_ksm_metrics(fetch_ksm_metrics()) /
\* fetch_metrics("http://localhost:8080/metrics")
FetchKsm ==
    /\ Running /\ pc = "ksm"
    /\ \E k \in KsmResponses :
          IF ~k.ok THEN Raise("ConnectionError")
          ELSE /\ ksm_metrics' =
                     CASE variant \in {"ms", "v2", "v3"} -> KsmParsed[k.text]
                       [] variant = "sc" -> ScKsmParsed[k.text]
                       [] variant = "v7" -> k.text
               /\ Step(IF variant = "v7" THEN "k8s" ELSE "correlate")
               /\ UNCHANGED <<pods, procs, terms, responses, prev_metrics,
                              curr_metrics, key_order, api, rows, delivery, cycle>>

\* v1.list_pod_for_all_namespaces()
ListPods ==
    /\ Running /\ pc = "k8s"
    /\ \/ \E a \in ApiListings :
            /\ api' = a
            /\ Step(IF variant = "v7" THEN "correlate" ELSE "baseline")
            /\ UNCHANGED <<pods, procs, terms, responses, prev_metrics,
                           curr_metrics, key_order, ksm_metrics, rows, delivery,
                           cycle>>
       \/ Raise("ApiError")

\* the loop that builds the records of the cycle
CorrelateStep ==
    /\ Running /\ pc = "correlate"
    /\ LET r == IF variant = "v7"
                THEN V7Correlated[curr_metrics][ksm_metrics][api]
                ELSE Correlate(variant, LoopKeys(variant, curr_metrics, key_order),
                               1, prev_metrics, curr_metrics, ksm_metrics, api,
                               NoRows)
       IN  IF r.err # "none" THEN Raise(r.err)
           ELSE /\ rows' = r.rows
                /\ Step(IF variant \in {"v2", "v3"} THEN "update" ELSE "send")
                /\ UNCHANGED <<pods, procs, terms, responses, prev_metrics,
                               curr_metrics, key_order, ksm_metrics, api, delivery,
                               cycle>>

\* a sender that posts the batch again when the sink refused it, for
\* comparison: the at-most-once delivery below must not hold of it
SendRetrying ==
    /\ Running /\ pc = "send"
    /\ \E o \in {"ok", "rejected"} :
          /\ delivery' = o
          /\ Step(IF o = "rejected" THEN "send"
                  ELSE IF variant = "ms" THEN "finally"
                  ELSE IF variant = "v7" THEN "cleanup" ELSE "update")
    /\ UNCHANGED <<pods, procs, terms, responses, prev_metrics, curr_metrics,
                   key_order, ksm_metrics, api, rows, cycle>>

\* send_to_ingest(token, rows) / requests.post(...): scraper.py catches the
\* exception of the post, scraper-v7.py posts only a non-empty batch
Send ==
    /\ Running /\ pc = "send"
    /\ \/ /\ variant = "v7" /\ rows = <<>>
          /\ Step("cleanup")
          /\ UNCHANGED <<pods, procs, terms, responses, prev_metrics, curr_metrics,
                         key_order, ksm_metrics, api, rows, delivery, cycle>>
       \/ /\ ~(variant = "v7" /\ rows = <<>>)
          /\ \E o \in {"ok", "rejected"} : delivery' = o
          /\ Step(CASE variant = "ms" -> "finally"
                    [] variant = "v7" -> "cleanup"
                    [] variant = "sc" -> "update")
          /\ UNCHANGED <<pods, procs, terms, responses, prev_metrics, curr_metrics,
                         key_order, ksm_metrics, api, rows, cycle>>
       \/ /\ variant = "sc"
          /\ delivery' = "error"
          /\ Step("update")
          /\ UNCHANGED <<pods, procs, terms, responses, prev_metrics, curr_metrics,
                         key_order, ksm_metrics, api, rows, cycle>>
       \/ /\ variant \in {"ms", "v7"}
          /\ ~(variant = "v7" /\ rows = <<>>)
          /\ Raise("ConnectionError")

\* the "finally" of metric-scraper/scraper.py, the "Cleanup" of scraper-v7.py
Cleanup ==
    /\ Running /\ pc \in {"finally", "cleanup"}
    /\ TerminateAll
    /\ Ended("normal", "none")

\* the end of a cycle that keeps the old baseline, for comparison: the
\* succession of baselines below must not hold of it
UpdateKeepsBaseline ==
    /\ Running /\ pc = "update"
    /\ rows' = <<>>
    /\ ksm_metrics' = EmptyDict
    /\ delivery' = "none"
    /\ responses' = <<>>
    /\ Step("sleep")
    /\ UNCHANGED <<pods, procs, terms, prev_metrics, curr_metrics, key_order,
                   api, cycle>>

\* prev_metrics = curr_metrics; the answers, the records and the policy data
\* of the cycle are not used again
Update ==
    /\ Running /\ pc = "update"
    /\ prev_metrics' = curr_metrics
    /\ rows' = <<>>
    /\ ksm_metrics' = EmptyDict
    /\ delivery' = "none"
    /\ responses' = <<>>
    /\ Step("sleep")
    /\ UNCHANGED <<pods, procs, terms, curr_metrics, key_order, api, cycle>>

\* time.sleep(...) at the end of the loop body
Sleep ==
    /\ Running /\ pc = "sleep"
    /\ cycle < MaxCycles
    /\ cycle' = cycle + 1
    /\ Step("scrape")
    /\ UNCHANGED <<pods, procs, terms, responses, prev_metrics, curr_metrics,
                   key_order, ksm_metrics, api, rows, delivery>>

Next ==
    \/ Auth \/ Discover \/ Assign \/ Forward \/ WaitForPorts \/ Baseline
    \/ FirstSleep \/ Scrape \/ FetchKsm \/ ListPods \/ CorrelateStep \/ Send
    \/ Cleanup \/ Update \/ Sleep \/ Interrupt

Spec == Init /\ [][Next]_vars

-----------------------------------------------------------------------------
(* The parser alone, on every text of at most MaxLines lines *)

ParserVariants == {"ms", "v2", "v3", "sc"}

InitParse ==
    /\ variant = "none"
    /\ pc = "none"
    /\ exit = "none"
    /\ error = "none"
    /\ pods = <<>>
    /\ procs = <<>>
    /\ terms = <<>>
    /\ responses = <<>>
    /\ prev_metrics = EmptyDict
    /\ curr_metrics = EmptyDict
    /\ key_order = <<>>
    /\ ksm_metrics = EmptyDict
    /\ api = <<>>
    /\ rows = <<>>
    /\ delivery = "none"
    /\ cycle = 0
    /\ ptext \in TextsUpTo(MaxLines)
    /\ pvariant \in ParserVariants
    /\ presult = [Idle EXCEPT !.done = FALSE]
    /\ assigned = <<>>
    /\ others = {}
    /\ up = {}
    /\ elapsed = 0

\* usage = fetch...(), the target answering ptext
ParseText ==
    /\ ~presult.done
    /\ \E ts \in Times :
          LET st == IF pvariant \in {"ms", "v3"}
                    THEN fetch_cadvisor_metrics_multiple(pvariant, <<Fetched(ptext)>>, ts)
                    ELSE fetch_cadvisor_metrics(pvariant, Fetched(ptext), ts)
          IN  presult' = [done |-> TRUE, usage |-> st.usage, order |-> st.order,
                          err |-> st.err]
    /\ UNCHANGED <<variant, pc, exit, error, pods, procs, terms, responses,
                   prev_metrics, curr_metrics, key_order, ksm_metrics, api, rows,
                   delivery, cycle, ptext, pvariant, assigned, others, up,
                   elapsed>>

NextParse == ParseText

SpecParse == InitParse /\ [][NextParse]_vars

-----------------------------------------------------------------------------
(* The tunnel manager alone: assign_ports_to_pods, start_port_forwards,    *)
(* wait_for_port and the teardown, beside the other processes of the host  *)

Ports == 1..MaxPort

\* a connect to the port is accepted: somebody listens on it
Listening(port) ==
    port \in others \/ \E i \in up : assigned[i] = port

\* what bind(('', 0)) may pick: the socket is closed when find_free_port
\* returns, so nothing keeps the port
FreePorts == {port \in Ports : ~Listening(port)}

\* a probe that is accepted whoever listens or not, for comparison: the
\* reports of wait_for_port below must not hold of it
ConnectsAnyway(port) == 0

\* sock.connect_ex(('localhost', port)): 0, or ECONNREFUSED
connect_ex(port) == IF Listening(port) THEN 0 ELSE 111

InitTunnel ==
    /\ variant = "none"
    /\ pc = "assign"
    /\ exit = "running"
    /\ error = "none"
    /\ pods \in {[i \in 1..n |-> i] : n \in 0..MaxPods}
    /\ procs = <<>>
    /\ terms = <<>>
    /\ responses = <<>>
    /\ prev_metrics = EmptyDict
    /\ curr_metrics = EmptyDict
    /\ key_order = <<>>
    /\ ksm_metrics = EmptyDict
    /\ api = <<>>
    /\ rows = <<>>
    /\ delivery = "none"
    /\ cycle = 0
    /\ ptext = <<>>
    /\ pvariant = "none"
    /\ presult = Idle
    /\ assigned = <<>>
    /\ others \in SUBSET Ports
    /\ up = {}
    /\ elapsed = 0

\* what no step of the tunnel manager touches
Untouched ==
    UNCHANGED <<variant, pods, responses, prev_metrics, curr_metrics, key_order,
                ksm_metrics, api, rows, delivery, cycle, ptext, pvariant,
                presult>>

\* one turn of "for pod in pod_names: port = find_free_port()", or the
\* return of assign_ports_to_pods
AssignPort ==
    /\ exit = "running" /\ pc = "assign"
    /\ \/ /\ Len(assigned) < Len(pods)
          /\ FreePorts # {}
          /\ \E port \in FreePorts : assigned' = Append(assigned, port)
          /\ UNCHANGED <<pc, exit, error>>
       \/ /\ Len(assigned) < Len(pods)
          /\ FreePorts = {}
          /\ exit' = "exception" /\ error' = "OSError"
          /\ UNCHANGED <<pc, assigned>>
       \/ /\ Len(assigned) = Len(pods)
          /\ pc' = "forward"
          /\ UNCHANGED <<exit, error, assigned>>
    /\ UNCHANGED <<procs, terms, others, up, elapsed>>
    /\ Untouched

\* start_port_forwards: one Popen per pod, none of them waited for
StartPortForwards ==
    /\ exit = "running" /\ pc = "forward"
    /\ procs' = [i \in 1..Len(pods) |-> "starting"]
    /\ terms' = [i \in 1..Len(pods) |-> 0]
    /\ pc' = "wait"
    /\ elapsed' = 0
    /\ UNCHANGED <<exit, error, assigned, others, up>>
    /\ Untouched

\* a started kubectl port-forward gets to bind its local port
TunnelListens ==
    /\ exit = "running"
    /\ \E i \in DOMAIN procs :
          /\ procs[i] # "terminated" /\ i \notin up
          /\ ~Listening(assigned[i])
          /\ up' = up \cup {i}
    /\ UNCHANGED <<pc, exit, error, procs, terms, assigned, others, elapsed>>
    /\ Untouched

\* another process of the host binds a free port, or closes one it holds
OtherProcess ==
    /\ exit = "running"
    /\ \/ \E port \in FreePorts : others' = others \cup {port}
       \/ \E port \in others : others' = others \ {port}
    /\ UNCHANGED <<pc, exit, error, procs, terms, assigned, up, elapsed>>
    /\ Untouched

\* the tunnel the loop over pod_ports is waiting for
Waited == {i \in DOMAIN procs : procs[i] = "starting"}

\* one turn of the loop of wait_for_port for the tunnel waited for: the test
\* of the timeout, the probe, the sleep; or its "return False"
Probe ==
    /\ exit = "running" /\ pc = "wait" /\ Waited # {}
    /\ LET i == Min(Waited)
       IN  IF elapsed < Timeout
           THEN IF connect_ex(assigned[i]) = 0
                THEN procs' = [procs EXCEPT ![i] = "ready"] /\ elapsed' = 0
                ELSE procs' = procs /\ elapsed' = elapsed + 1
           ELSE procs' = [procs EXCEPT ![i] = "failed"] /\ elapsed' = 0
    /\ UNCHANGED <<pc, exit, error, terms, assigned, others, up>>
    /\ Untouched

\* the loop over pod_ports is through
AllWaited ==
    /\ exit = "running" /\ pc = "wait" /\ Waited = {}
    /\ pc' = "teardown"
    /\ UNCHANGED <<exit, error, procs, terms, assigned, others, up, elapsed>>
    /\ Untouched

\* "for _, proc in procs: proc.terminate()", and the run is over
Teardown ==
    /\ exit = "running" /\ pc = "teardown"
    /\ TerminateAll
    /\ up' = {}
    /\ exit' = "normal"
    /\ UNCHANGED <<pc, error, assigned, others, elapsed>>
    /\ Untouched

NextTunnel ==
    \/ AssignPort \/ StartPortForwards \/ TunnelListens \/ OtherProcess
    \/ Probe \/ AllWaited \/ Teardown

\* the script's own steps are taken when they can be
SpecTunnel ==
    /\ InitTunnel /\ [][NextTunnel]_vars
    /\ WF_vars(AssignPort) /\ WF_vars(StartPortForwards)
    /\ WF_vars(Probe) /\ WF_vars(AllWaited) /\ WF_vars(Teardown)

-----------------------------------------------------------------------------
(* The properties *)

\* the identity a record carries
RowKey(row) ==
    IF "ns" \in DOMAIN row THEN <<row.ns, row.pod, row.container>>
    ELSE <<row.namespace, row.pod, row.container>>

\* the snapshot holds a CPU counter for the key (scraper-v7.py keeps the raw
\* lines of a scrape, and reads the counters out of them when it correlates)
HasCpu(snapshot, key) ==
    LET usage == IF variant = "v7" THEN V7ContainerUsage(snapshot, 1, EmptyDict)
                 ELSE snapshot
    IN  key \in DOMAIN usage /\ "cpu" \in DOMAIN usage[key]

\* C1: in every variant, a record is emitted for a key only if both the
\* current and the baseline snapshot hold a CPU counter for that key.
C1_EmittedOnlyWithBothCounters ==
    \A i \in DOMAIN rows :
        /\ HasCpu(curr_metrics, RowKey(rows[i]))
        /\ HasCpu(prev_metrics, RowKey(rows[i]))

\* the counters and timestamps the record of rows[i] was computed from
DeltaCpu(i) ==
    curr_metrics[RowKey(rows[i])].cpu - prev_metrics[RowKey(rows[i])].cpu

DeltaTime(i) ==
    curr_metrics[RowKey(rows[i])].timestamp - prev_metrics[RowKey(rows[i])].timestamp

\* C2: for every key emitted by a correlate step that computes a rate
\* (all variants but scraper-v7.py, which computes none), the CPU rate is
\* (current counter - baseline counter) / (current timestamp - baseline
\* timestamp) when the elapsed time is > 0 and exactly 0.0 when it is <= 0,
\* and no run ends in a division error.
C2_RateOrZero ==
    /\ error # "ZeroDivisionError"
    /\ variant # "v7" =>
         \A i \in DOMAIN rows :
            LET cpu == RowCpu(variant, rows[i])
            IN  IF DeltaTime(i) > 0
                THEN cpu.d # 0 /\ cpu.n * DeltaTime(i) = DeltaCpu(i) * cpu.d
                ELSE cpu = Zero

\* a record whose counter moved over a positive elapsed time
C2_Witness ==
    /\ variant # "v7"
    /\ \E i \in DOMAIN rows :
          /\ DeltaTime(i) > 1 /\ DeltaCpu(i) > 0
          /\ RowCpu(variant, rows[i]) # Zero

\* a record whose counter moved while the clock did not advance
C2_WitnessNoElapsed ==
    /\ variant # "v7"
    /\ \E i \in DOMAIN rows :
          /\ DeltaTime(i) <= 0 /\ DeltaCpu(i) > 0
          /\ RowCpu(variant, rows[i]) = Zero

\* C3: on every exit path of a single scrape run (metric-scraper/scraper.py,
\* scraper-v7.py) after start_port_forwards returned, by normal completion
\* or by an exception, every started port-forward has been terminated
\* exactly once.
C3_TunnelsTerminatedOnExit ==
    (variant \in {"ms", "v7"} /\ exit \in {"normal", "exception"}) =>
        \A i \in DOMAIN procs : procs[i] = "terminated" /\ terms[i] = 1

\* C4: a KeyboardInterrupt delivered at any point while tunnels are open
\* (readiness wait, baseline scrape and sleeps included) leaves no tunnel
\* open when the process exits.
C4_InterruptTerminatesTunnels ==
    exit = "interrupt" =>
        \A i \in DOMAIN procs : procs[i] = "terminated"

LoopVariants == {"v2", "v3", "sc"}

CycleSteps == {"scrape", "ksm", "correlate", "send", "update", "sleep"}

\* C5: in the looping variants, a failure inside one cycle (usage scrape,
\* state-exporter scrape, parsing, delivery) does not end the loop.
C5_CycleFailureKeepsLoop ==
    (variant \in LoopVariants /\ pc \in CycleSteps) => exit # "exception"

\* the policy data hold nothing for the key of the record
NoPolicy(row) ==
    IF variant = "sc"
    THEN <<RowKey(row)[1], RowKey(row)[2]>> \notin DOMAIN ksm_metrics
    ELSE RowKey(row) \notin DOMAIN ksm_metrics

RequestLimitFields ==
    {"cpu_req", "cpu_lim", "mem_req", "mem_lim", "cpu_request", "cpu_limit",
     "memory_request", "memory_limit"}

\* C6: an emitted usage key without a policy entry still yields a record,
\* whose four request and limit fields are 0.0 and whose node and owner
\* are "unknown".
C6_DefaultsWithoutPolicy ==
    variant # "v7" =>
        \A i \in DOMAIN rows :
            NoPolicy(rows[i]) =>
                /\ Cardinality(RequestLimitFields \cap DOMAIN rows[i]) = 4
                /\ \A f \in RequestLimitFields \cap DOMAIN rows[i] : rows[i][f] = Zero
                /\ rows[i].node = Unknown
                /\ \E f \in {"owner", "kind"} \cap DOMAIN rows[i] : rows[i][f] = Unknown

Sentinels == {POD, <<>>}

RecordsClean == \A i \in DOMAIN rows : rows[i].container \notin Sentinels

\* the identity keys of the usage maps a variant holds
SnapshotKeys ==
    IF variant = "v7"
    THEN DOMAIN V7ContainerUsage(prev_metrics, 1, EmptyDict)
         \cup DOMAIN V7ContainerUsage(curr_metrics, 1, EmptyDict)
    ELSE DOMAIN prev_metrics \cup DOMAIN curr_metrics

C8_KeyFieldsNonEmpty ==
    \A key \in DOMAIN presult.usage :
        key[1] # <<>> /\ key[2] # <<>> /\ key[3] # <<>>

\* the lines of a text whose value, if the line is a usage sample, is a number
GoodLines(v, text) ==
    LET Good(line) == ParseLine(v, line, NoUsage, 0).err = "none"
    IN  SelectSeq(text, Good)

\* C9: parsing a batch never raises; a matched line whose value is not a
\* number is skipped alone, and the result holds the samples of all other
\* lines.
C9_ParseNeverRaises ==
    presult.done =>
        /\ presult.err = "none"
        /\ \E ts \in Times :
              presult.usage =
                  ParseLines(pvariant, GoodLines(pvariant, ptext), 1, NoUsage, ts).usage

\* the texts of the targets that answered, in target order
RECURSIVE SucceededText(_, _)
SucceededText(resp, i) ==
    IF i > Len(resp) THEN <<>>
    ELSE (IF resp[i].ok THEN resp[i].text ELSE <<>>) \o SucceededText(resp, i + 1)

\* the texts the targets that answered can add up to, and for each the
\* snapshots its lines parse to, one per time of the scrape
AnsweredTexts ==
    {SucceededText(r, 1) :
        r \in UNION {[1..n -> UsageResponses] : n \in 0..MaxPods}}

SnapshotsOf ==
    [v \in {"ms", "v3"} |-> [t \in AnsweredTexts |->
        {ParseLines(v, t, 1, NoUsage, ts).usage : ts \in Times}]]

\* C10: in the variants that scrape several port-forwarded targets
\* (metric-scraper/scraper.py, scraper-v3.py), a target whose fetch fails or
\* whose tunnel never became ready does not stop the scrape, and the
\* snapshot returned holds exactly the samples of the targets that answered.
C10_FailedTargetIsolated ==
    /\ (variant \in {"ms", "v3"} /\ pc \in {"baseline", "scrape"})
          => error # "ConnectionError"
    /\ (variant \in {"ms", "v3"} /\ responses # <<>>) =>
          (IF pc = "sleep0" THEN prev_metrics ELSE curr_metrics)
              \in SnapshotsOf[variant][SucceededText(responses, 1)]

\* a scrape with a tunnel that never came up and a target that answered
C10_Witness ==
    /\ variant \in {"ms", "v3"} /\ pc = "ksm"
    /\ curr_metrics # EmptyDict
    /\ \E i, j \in DOMAIN responses :
          /\ procs[i] = "failed" /\ ~responses[i].ok
          /\ responses[j].ok /\ responses[j].text # <<>>

\* the records the correlate loop makes of the two snapshots now held
RecordsOfSnapshots ==
    Correlate(variant, LoopKeys(variant, curr_metrics, key_order), 1,
              prev_metrics, curr_metrics, ksm_metrics, api, NoRows).rows

\* what a step of a looping variant may do to the records and the snapshots
BaselineStep ==
    variant \in LoopVariants =>
        /\ (cycle' = 0 => rows' = <<>>)
        /\ (rows' # rows /\ rows' # <<>>) =>
              (pc = "correlate" /\ rows' = RecordsOfSnapshots
               /\ prev_metrics' = prev_metrics /\ curr_metrics' = curr_metrics)
        /\ (prev_metrics' # prev_metrics /\ exit' = "running") =>
              (pc \in {"baseline", "update"}
               /\ (pc = "update" => prev_metrics' = curr_metrics))
        /\ (pc = "update" /\ pc' = "sleep") =>
              (prev_metrics' = curr_metrics /\ curr_metrics' = curr_metrics)
        /\ (curr_metrics' # curr_metrics /\ exit' = "running") => pc = "scrape"

\* C11: in the looping variants the first scrape only sets the baseline and
\* emits nothing; the records of a cycle are made of the snapshot of that
\* cycle and the baseline; the baseline is replaced only at the end of the
\* cycle, after the records were made, by the snapshot of that cycle, and
\* is left alone until the end of the next cycle.
C11_BaselineSuccession == [][BaselineStep]_vars

\* a second cycle has made records of a snapshot that differs from its
\* baseline, the snapshot of the first cycle
C11_Witness ==
    /\ variant \in LoopVariants
    /\ cycle = 2 /\ pc = "update"
    /\ rows # <<>>
    /\ prev_metrics # curr_metrics

\* C12: in every cycle the records come in ascending order of identity key
\* (namespace, then pod, then container), whatever the order of the lines
\* in the exposition text and whichever target supplied them.
C12_RecordsSortedByKey ==
    variant # "v7" =>
        \A i, j \in DOMAIN rows :
            i < j => KeyLess(RowKey(rows[i]), RowKey(rows[j]))

\* what a step may do to the assignment: the ports stay distinct, and
\* when the tunnels are started none of their ports is listened on
PortsStep ==
    /\ \A i, j \in DOMAIN assigned' : i # j => assigned'[i] # assigned'[j]
    /\ (pc = "forward" /\ pc' = "wait") =>
          \A i \in DOMAIN assigned : ~Listening(assigned[i])

\* C13: assign_ports_to_pods gives every pod its own local port, and no
\* assigned port is already bound when the tunnel for it is started.
C13_OwnFreePort == [][PortsStep]_vars

\* what a step may do to the state of a tunnel
LifecycleStep ==
    \A i \in DOMAIN procs \cap DOMAIN procs' :
        procs'[i] # procs[i] =>
            \/ /\ procs[i] = "starting" /\ procs'[i] = "ready"
               /\ Listening(assigned[i]) /\ elapsed < Timeout
            \/ /\ procs[i] = "starting" /\ procs'[i] = "failed"
               /\ elapsed >= Timeout
            \/ /\ procs[i] \in {"starting", "ready", "failed"}
               /\ procs'[i] = "terminated"

\* C14: a tunnel goes starting -> ready | failed -> terminated and never
\* back; wait_for_port reports ready only when a probe of the tunnel's port
\* was accepted before the timeout elapsed, failed only when the timeout
\* elapsed with every probe refused, and the waiting always comes to an end.
C14_TunnelLifecycle ==
    /\ [][LifecycleStep]_vars
    /\ (pc = "wait") ~> (pc = "teardown")

\* the waits are over, with one tunnel reported ready and one failed
C14_Witness ==
    /\ pc = "teardown" /\ exit = "running"
    /\ \E i, j \in DOMAIN procs : procs[i] = "ready" /\ procs[j] = "failed"

\* what the pod-info and pod-owner lines of an exposition text report:
\* <<namespace, pod, node>> and <<namespace, pod, owner kind>>
PodLevel ==
    [t \in KsmTexts |->
        [nodes |-> {LET m == RxMatch(pod_info_pattern, t[i])
                    IN  <<m.caps[1], m.caps[2], m.caps[3]>> :
                        i \in {j \in DOMAIN t : RxMatch(pod_info_pattern, t[j]).ok}},
         owners |-> {LET m == RxMatch(owner_pattern, t[i])
                     IN  <<m.caps[1], m.caps[2], m.caps[3]>> :
                         i \in {j \in DOMAIN t : RxMatch(owner_pattern, t[j]).ok}}]]

\* C15: whenever the state exporter reports a pod-info or pod-owner line for
\* (namespace, pod), every record of a container of that pod carries that
\* node and owner kind, with or without a resource line for the container.
C15_PodLevelJoin ==
    variant = "ms" =>
        \A t \in KsmTexts : ksm_metrics = KsmParsed[t] =>
            \A i \in DOMAIN rows :
                /\ \A e \in PodLevel[t].nodes :
                       (e[1] = RowKey(rows[i])[1] /\ e[2] = RowKey(rows[i])[2])
                           => rows[i].node = e[3]
                /\ \A e \in PodLevel[t].owners :
                       (e[1] = RowKey(rows[i])[1] /\ e[2] = RowKey(rows[i])[2])
                           => /\ "owner" \in DOMAIN rows[i]
                              /\ rows[i].owner = e[3]

\* C16: no emitted record carries a negative CPU rate, also when the CPU
\* counter of the current snapshot is lower than that of the baseline.
C16_NoNegativeRate ==
    variant \in {"ms", "sc"} =>
        \A i \in DOMAIN rows :
            RowCpu(variant, rows[i]).n * RowCpu(variant, rows[i]).d >= 0

\* what a step may do to the delivery of the batch of a cycle
DeliveryStep ==
    variant \in {"ms", "sc"} =>
        \* the batch is posted once, from the send step, and the step after
        \* the post is never the send step again
        /\ (delivery' # delivery /\ delivery' # "none")
               => (pc = "send" /\ delivery = "none" /\ pc' # "send")
        \* a refusal of the sink neither raises nor ends the process
        /\ (pc = "send" /\ delivery' = "rejected")
               => (exit' = "running" /\ error' = "none")
        \* a refused batch is not kept for a later cycle
        /\ (delivery = "rejected" /\ rows' # rows) => rows' = <<>>
        /\ pc' = "send" => delivery' = "none"

\* C17: the batch of a cycle is delivered at most once; a non-success
\* response of the sink is reported, never retried or queued for a later
\* cycle, and neither raises nor terminates the process.
C17_DeliveredAtMostOnce == [][DeliveryStep]_vars

\* the sink has refused a non-empty batch and the process goes on
C17_Witness ==
    /\ variant \in {"ms", "sc"} /\ delivery = "rejected"
    /\ rows # <<>> /\ exit = "running" /\ pc # "send"

\* the lines of a text that match a usage prefix and pass the container
\* filter: the lines whose value is extracted
ValuedLines(text) ==
    LET Valued(line) ==
            /\ StartsWith(line, CpuPrefix) \/ StartsWith(line, MemPrefix)
            /\ ~Discarded(ResolveKey(parse_labels(LabelPart(line)))[3])
    IN  SelectSeq(text, Valued)

\* the fields of a sample behind its label block: the value, then the
\* timestamp if the line has one
SampleFields(line) ==
    LET I == {i \in 1..Len(line) : line[i] = "}"}
        last == CHOOSE i \in I : \A j \in I : j <= i
    IN  IF I = {} THEN <<>> ELSE Split(SubSeq(line, last + 1, Len(line)))

\* C18: the value extracted from a usage line is its last token, or the one
\* before it when the line ends with a timestamp; neither a trailing
\* timestamp nor a label value is ever taken for the value.
C18_ValueTokenChosen ==
    (presult.done /\ pvariant \in {"ms", "sc"}) =>
        \A i \in DOMAIN ValuedLines(ptext) :
            LET line == ValuedLines(ptext)[i]
            IN  Len(SampleFields(line)) \in {1, 2}
                    => ValueToken(pvariant, line) = SampleFields(line)[1]

\* the value the resolver is to give for one field of the key
Preferred(labels, canonical, alternate) ==
    IF <<canonical>> \in DOMAIN labels THEN labels[<<canonical>>]
    ELSE IF <<alternate>> \in DOMAIN labels THEN labels[<<alternate>>]
    ELSE <<>>

PreferredKey(line) ==
    LET labels == parse_labels(LabelPart(line))
    IN  << Preferred(labels, "namespace", "container_label_io_kubernetes_pod_namespace"),
           Preferred(labels, "pod", "container_label_io_kubernetes_pod_name"),
           Preferred(labels, "container",
                     "container_label_io_kubernetes_container_name") >>

\* the keys the usage lines of a text are to be stored under
PreferredKeys(text) ==
    {PreferredKey(text[i]) :
        i \in {j \in DOMAIN text :
                  /\ StartsWith(text[j], CpuPrefix) \/ StartsWith(text[j], MemPrefix)
                  /\ PreferredKey(text[j])[3] \notin {<<>>, POD}}}

\* C19: each field of the key is the canonical label's value when the line
\* has it, else the alternate label's value, else the empty string, and
\* resolving raises nothing.
C19_CanonicalPreferred ==
    (presult.done /\ pvariant \in {"ms", "v2"}) =>
        /\ presult.err \in {"none", "ValueError"}
        /\ presult.err = "none" => DOMAIN presult.usage = PreferredKeys(ptext)

\* a text with a line that has both labels of the container and a line that
\* has the alternate labels only has been parsed
C19_Witness ==
    /\ presult.done /\ pvariant \in {"ms", "v2"} /\ presult.err = "none"
    /\ ptext = <<cpuBoth, cpuK2>>
    /\ DOMAIN presult.usage = {K1, K2}

\* the mapping a label block stands for: one entry per comma-separated pair
\* that has an '=', from the text before the first '=' to the text behind
\* it without its quotes; of two pairs with one key the later counts
LabelsOf(label_str) ==
    LET pairs == SplitAll(label_str, ",")
        I == {i \in DOMAIN pairs : Find(pairs[i], "=") > 0}
        KeyOf(i) == Strip(SubSeq(pairs[i], 1, Find(pairs[i], "=") - 1))
        ValueOf(i) == StripChar(SubSeq(pairs[i], Find(pairs[i], "=") + 1,
                                       Len(pairs[i])), "\"")
        Last(key) == CHOOSE i \in I :
                        KeyOf(i) = key /\ \A j \in I : KeyOf(j) = key => j <= i
    IN  [key \in {KeyOf(i) : i \in I} |-> ValueOf(Last(key))]

\* C20: parse_labels gives, for every pair of the label block, the key
\* before the pair's first '=' and the value behind it without its quotes;
\* a pair without '=' gives no entry and no error.
C20_ParseLabelsFirstEq ==
    presult.done =>
        \A i \in DOMAIN ptext :
            (StartsWith(ptext[i], CpuPrefix) \/ StartsWith(ptext[i], MemPrefix))
                => parse_labels(LabelPart(ptext[i])) = LabelsOf(LabelPart(ptext[i]))

\* a line with a pair without '=' and a value with an '=' has been parsed,
\* and its sample is stored under the container name with the '='
C20_Witness ==
    /\ presult.done /\ presult.err = "none"
    /\ cpuEqInLabel \in Range(ptext)
    /\ <<N1, P1, <<"c", "=", "1">>>> \in DOMAIN presult.usage

\* the memory gauge, in bytes, that a text reports for a key: the value of
\* the last memory line of the key, 0 when the text has none
ReportedMemory(text, key) ==
    LET I == {i \in DOMAIN text :
                 /\ StartsWith(text[i], MemPrefix)
                 /\ PreferredKey(text[i]) = key
                 /\ Len(SampleFields(text[i])) \in {1, 2}
                 /\ IsFloat(SampleFields(text[i])[1])}
        last == CHOOSE i \in I : \A j \in I : j <= i
    IN  IF I = {} THEN 0 ELSE FloatVal(SampleFields(text[last])[1])

\* C21: the memory usage of every emitted record, in bytes, is the memory
\* gauge the exposition text of the current scrape reported for the key, and
\* 0 when it reported none; a key without memory sample is emitted all the
\* same.
C21_MemoryBytesReported ==
    (variant = "ms" /\ pc \in {"send", "finally"} /\ responses # <<>>) =>
        /\ \A i \in DOMAIN rows :
              rows[i].mem_usage_b =
                  ReportedMemory(SucceededText(responses, 1), RowKey(rows[i]))
        /\ \A key \in DOMAIN curr_metrics :
              Emitted(key, prev_metrics, curr_metrics)
                  => \E i \in DOMAIN rows : RowKey(rows[i]) = key

\* the keys for which a text has a line of the family that passes the
\* container filter
KeysOf(text, prefix) ==
    {PreferredKey(text[i]) :
        i \in {j \in DOMAIN text :
                  /\ StartsWith(text[j], prefix)
                  /\ PreferredKey(text[j])[3] \notin {<<>>, POD}}}

\* C22: when a text has both a CPU line and a memory line for a key, the
\* snapshot entry of the key holds the cpu value and the memory value,
\* whichever of the two lines comes first.
C22_LineOrderIrrelevant ==
    (presult.done /\ presult.err = "none" /\ pvariant \in {"ms", "v2"}) =>
        \A key \in KeysOf(ptext, CpuPrefix) \cap KeysOf(ptext, MemPrefix) :
            /\ key \in DOMAIN presult.usage
            /\ "cpu" \in DOMAIN presult.usage[key]
            /\ "memory" \in DOMAIN presult.usage[key]

\* the CPU lines the targets can answer, each with its key and its value
CpuSample ==
    [l \in {x \in UNION {Range(t) : t \in TargetTexts} : StartsWith(x, CpuPrefix)} |->
        [key |-> PreferredKey(l), value |-> SampleFields(l)[1]]]

\* the CPU lines of a key in a text, and the counter of the last of them
CpuLinesOf(text, key) ==
    {i \in DOMAIN text : text[i] \in DOMAIN CpuSample /\ CpuSample[text[i]].key = key}

LastCpu(text, key) ==
    LET I == CpuLinesOf(text, key)
        last == CHOOSE i \in I : \A j \in I : j <= i
    IN  FloatVal(CpuSample[text[last]].value)

\* the snapshot made of the answers held in responses
SnapshotOfResponses == IF pc = "sleep0" THEN prev_metrics ELSE curr_metrics

\* C23: a cycle emits at most one record per key; of several CPU lines of a
\* key, on several lines or from several targets, the snapshot keeps one
\* entry with the sample read last, and one record is made of it.
C23_OneRecordPerKey ==
    variant = "ms" =>
        /\ \A i, j \in DOMAIN rows :
              RowKey(rows[i]) = RowKey(rows[j]) => i = j
        /\ responses # <<>> =>
              \A key \in DOMAIN SnapshotOfResponses :
                  "cpu" \in DOMAIN SnapshotOfResponses[key] =>
                      /\ CpuLinesOf(SucceededText(responses, 1), key) # {}
                      /\ SnapshotOfResponses[key].cpu =
                             LastCpu(SucceededText(responses, 1), key)

\* two targets have answered a CPU line for the same key, and the one
\* record of the key is made of the counter of the second
C23_Witness ==
    /\ variant = "ms" /\ pc = "send" /\ Len(responses) = 2
    /\ responses[1] = Fetched(<<cpuK1, memK1>>)
    /\ responses[2] = Fetched(<<cpuK2, cpuK1ts>>)
    /\ curr_metrics[K1].cpu = 7
    /\ \E i \in DOMAIN rows : RowKey(rows[i]) = K1

\* every entry of the snapshot with a cpu value has a timestamp, and these
\* timestamps are one value
OneTimestamp(snapshot) ==
    LET S == {key \in DOMAIN snapshot : "cpu" \in DOMAIN snapshot[key]}
    IN  /\ \A key \in S : "timestamp" \in DOMAIN snapshot[key]
        /\ \A k1, k2 \in S : snapshot[k1].timestamp = snapshot[k2].timestamp

====
